---- MODULE Spec2Model ----
(***************************************************************************)
(* The price-history table and the recommendation engine of trenes_tool:   *)
(* PriceHistory (models.py) and PriceOptimizer (optimizer.py).             *)
(*                                                                         *)
(* Values.  A price is a decimal.Decimal; the model takes whole amounts,   *)
(* so a price is an integer.  A quotient of Decimals (a mean, a ratio) is  *)
(* kept as an exact fraction [num, den]; a standard deviation is kept as   *)
(* the fraction it is the square root of.  Python rounds a Decimal         *)
(* quotient to 28 digits and float() to 53 bits: for amounts below 10^14   *)
(* two different fractions of the model stay apart by more than either     *)
(* rounding, so every comparison of the code has the outcome the exact     *)
(* comparison has.  A float literal (0.05, 1.1, 0.8) is the fraction it is *)
(* written as.  A date is a day number; a datetime is a day number too,    *)
(* and where the time of day matters (a route's departure_time) it is the  *)
(* day and the hour.                                                       *)
(*                                                                         *)
(* The SQLite store (database.py) is the three tables of PriceDatabase,    *)
(* each the sequence of its rows in insertion order: a row's id is its     *)
(* position, as AUTOINCREMENT numbers rows that are never deleted.         *)
(***************************************************************************)
EXTENDS Integers, Sequences, FiniteSets, TLC

VARIABLES
    price_histories,  \* PriceOptimizer.price_histories: route key -> PriceHistory
    db,               \* the database file of PriceDatabase: its tables
    ret               \* how the last call ended: its arguments, its return
                      \* value or the exception it raised, and the locals of
                      \* _generate_recommendation when it left that function

vars == <<price_histories, db, ret>>

---------------------------------------------------------------------------
(* Python values *)

\* Optional[T]: None is the empty tuple, a present value v is <<v>>.
None == <<>>

Some(v) == <<v>>

\* How an evaluation ends: with a value, or with an exception raised at a line.
Return(v) == [raised |-> FALSE, exc |-> "", line |-> 0, value |-> v]

Raise(e, l) == [raised |-> TRUE, exc |-> e, line |-> l, value |-> None]

\* A fraction num/den, den # 0, not reduced.
Rat(n, d) == [num |-> n, den |-> d]

RatNorm(r) == IF r.den < 0 THEN Rat(0 - r.num, 0 - r.den) ELSE r

RatLt(a, b) == RatNorm(a).num * RatNorm(b).den < RatNorm(b).num * RatNorm(a).den

RatLe(a, b) == RatNorm(a).num * RatNorm(b).den <= RatNorm(b).num * RatNorm(a).den

RatEq(a, b) == a.num * b.den = b.num * a.den

RatAbs(r) == Rat(IF r.num < 0 THEN 0 - r.num ELSE r.num,
                 IF r.den < 0 THEN 0 - r.den ELSE r.den)

RatSub(a, b) == Rat(a.num * b.den - b.num * a.den, a.den * b.den)

\* Decimal / Decimal (decimal.py): x/0 raises DivisionByZero, 0/0 InvalidOperation.
DecimalDiv(a, b, l) ==
    IF b.num = 0
    THEN IF a.num = 0 THEN Raise("InvalidOperation", l) ELSE Raise("DivisionByZero", l)
    ELSE Return(Rat(a.num * b.den, a.den * b.num))

\* Decimal * float: Decimal.__mul__ and float.__rmul__ both answer NotImplemented
\* for the other's type, so the product raises TypeError whatever the values.
DecimalMulFloat(d, f, l) == Raise("TypeError", l)

\* min(), max(), sum() of a non-empty list of integers.
Min(s) == CHOOSE x \in {s[i] : i \in 1..Len(s)} : \A j \in 1..Len(s) : x <= s[j]

Max(s) == CHOOSE x \in {s[i] : i \in 1..Len(s)} : \A j \in 1..Len(s) : x >= s[j]

RECURSIVE Sum(_)
Sum(s) == IF s = <<>> THEN 0 ELSE s[1] + Sum(Tail(s))

RECURSIVE SumSq(_)
SumSq(s) == IF s = <<>> THEN 0 ELSE s[1] * s[1] + SumSq(Tail(s))

\* statistics.mean: the exact mean.
mean(s) == Rat(Sum(s), Len(s))

\* statistics.variance of two or more values: sum((x - mean)^2) / (n - 1),
\* which is (n * sum(x^2) - sum(x)^2) / (n * (n - 1)).
variance(s) == Rat(Len(s) * SumSq(s) - Sum(s) * Sum(s), Len(s) * (Len(s) - 1))

\* statistics.stdev: the square root of the variance, kept by its square.
stdev(s) == [sqrt_of |-> variance(s)]

\* The literal 0 the code uses for the deviation of a single value.
ZeroDeviation == [sqrt_of |-> Rat(0, 1)]

\* a > sd for a fraction a >= 0 and a deviation sd: a^2 > sd^2.
GtDeviation(a, sd) == RatLt(sd.sqrt_of, Rat(a.num * a.num, a.den * a.den))

\* sd > a for a deviation sd and a fraction a: a < 0, or sd^2 > a^2.
DeviationGt(sd, a) ==
    \/ RatLt(a, Rat(0, 1))
    \/ RatLt(Rat(a.num * a.num, a.den * a.den), sd.sqrt_of)

\* s[:]: the whole list, whatever n.
WholeList(s, n) == s

\* s[-n:]
LastN(s, n) == IF Len(s) <= n THEN s ELSE SubSeq(s, Len(s) - n + 1, Len(s))

---------------------------------------------------------------------------
(* models.py *)

\* OptimizationRecommendation
BUY_NOW == "BUY_NOW"

WAIT == "WAIT"

PRICE_ALERT == "PRICE_ALERT"

NO_DATA == "NO_DATA"

\* TrainRoute: the fields the optimizer and the store read.  departure_time is
\* the day and the hour; departure_date is departure_time.date().
TrainRoute(o, d, number, tt, day, hour) ==
    [origin |-> [code |-> o], destination |-> [code |-> d],
     train_number |-> number, train_type |-> tt,
     departure_date |-> day, departure_hour |-> hour]

\* PriceData.  No field has a validator: any Decimal, zero and negative ones
\* too, is a price, and any int is an availability.
PriceData(r, p, ticket, seats, t) ==
    [route |-> r, price |-> p, currency |-> "EUR", ticket_type |-> ticket,
     availability |-> seats, scraped_at |-> t]

\* PriceHistory(route_key=k): the field defaults.
PriceHistory(k) ==
    [route_key |-> k, prices |-> <<>>,
     lowest_price |-> None, highest_price |-> None, average_price |-> None]

\* [p.price for p in prices]
PricesOf(ps) == [i \in 1..Len(ps) |-> ps[i].price]

\* _update_statistics that sets lowest_price once and keeps it from then on.
UpdateStatisticsKeepLowest(h) ==
    IF h.prices = <<>> THEN h
    ELSE [h EXCEPT !.lowest_price =
                       IF h.lowest_price = None
                       THEN Some(Min(PricesOf(h.prices))) ELSE h.lowest_price,
                   !.highest_price = Some(Max(PricesOf(h.prices))),
                   !.average_price =
                       Some(Rat(Sum(PricesOf(h.prices)), Len(h.prices)))]

\* _update_statistics that computes average_price once and keeps it from then on.
UpdateStatisticsKeepMean(h) ==
    IF h.prices = <<>> THEN h
    ELSE [h EXCEPT !.lowest_price = Some(Min(PricesOf(h.prices))),
                   !.highest_price = Some(Max(PricesOf(h.prices))),
                   !.average_price =
                       IF h.average_price = None
                       THEN Some(Rat(Sum(PricesOf(h.prices)), Len(h.prices)))
                       ELSE h.average_price]

\* PriceHistory._update_statistics
_update_statistics(h) ==
    IF h.prices = <<>> THEN h
    ELSE [h EXCEPT !.lowest_price = Some(Min(PricesOf(h.prices))),
                   !.highest_price = Some(Max(PricesOf(h.prices))),
                   !.average_price =
                       Some(Rat(Sum(PricesOf(h.prices)), Len(h.prices)))]

\* add_price that inserts at the front of the list.
AddPriceFront(h, price_data) ==
    _update_statistics([h EXCEPT !.prices = <<price_data>> \o h.prices])

\* PriceHistory.add_price
add_price(h, price_data) ==
    _update_statistics([h EXCEPT !.prices = Append(h.prices, price_data)])

---------------------------------------------------------------------------
(* optimizer.py: the pure parts of PriceOptimizer *)

\* A key that tells the trains of one day apart by their hour of departure.
RouteKeyWithHour(route, travel_date) ==
    route.origin.code \o "_" \o route.destination.code \o "_"
        \o ToString(travel_date) \o "_" \o ToString(route.departure_hour)
        \o "_" \o route.train_type

\* PriceOptimizer._generate_route_key: an f-string of the two station codes,
\* the date and the train type, joined by "_".
_generate_route_key(route, travel_date) ==
    route.origin.code \o "_" \o route.destination.code \o "_"
        \o ToString(travel_date) \o "_" \o route.train_type

\* PriceOptimizer._get_suggested_action
_get_suggested_action(recommendation) ==
    CASE recommendation = BUY_NOW -> "Book your ticket immediately"
      [] recommendation = WAIT -> "Wait and monitor prices for a few more days"
      [] recommendation = PRICE_ALERT ->
             "Excellent price! Consider booking if your plans are confirmed"
      [] recommendation = NO_DATA -> "Monitor prices to gather more data"
      [] OTHER -> "Monitor prices"

\* OptimizationResult(...): pydantic checks 0.0 <= confidence <= 1.0 (models.py,
\* Field(ge=0.0, le=1.0)) and raises ValidationError otherwise.
OptimizationResult(fields, l) ==
    IF RatLe(Rat(0, 1), fields.confidence) /\ RatLe(fields.confidence, Rat(1, 1))
    THEN Return(fields)
    ELSE Raise("ValidationError", l)

\* The branches of _no_data_recommendation with < where the code has <=.
NoDataChoiceStrict(days_until_departure) ==
    IF days_until_departure < 7
    THEN [recommendation |-> BUY_NOW, confidence |-> Rat(5, 10),
          reasoning |-> "Limited time until departure. Book now to secure your seat."]
    ELSE IF days_until_departure < 30
    THEN [recommendation |-> WAIT, confidence |-> Rat(3, 10),
          reasoning |-> "Monitor prices for a few more days before booking."]
    ELSE [recommendation |-> WAIT, confidence |-> Rat(4, 10),
          reasoning |-> "Too early to book. Wait for better price data."]

\* The branches of _no_data_recommendation with an alert for the early requests.
NoDataChoiceAlert(days_until_departure) ==
    IF days_until_departure <= 7
    THEN [recommendation |-> BUY_NOW, confidence |-> Rat(5, 10),
          reasoning |-> "Limited time until departure. Book now to secure your seat."]
    ELSE IF days_until_departure <= 30
    THEN [recommendation |-> WAIT, confidence |-> Rat(3, 10),
          reasoning |-> "Monitor prices for a few more days before booking."]
    ELSE [recommendation |-> PRICE_ALERT, confidence |-> Rat(4, 10),
          reasoning |-> "Too early to book. Wait for better price data."]

\* PriceOptimizer._no_data_recommendation: the if/elif/else on the days.
NoDataChoice(days_until_departure) ==
    IF days_until_departure <= 7
    THEN [recommendation |-> BUY_NOW, confidence |-> Rat(5, 10),
          reasoning |-> "Limited time until departure. Book now to secure your seat."]
    ELSE IF days_until_departure <= 30
    THEN [recommendation |-> WAIT, confidence |-> Rat(3, 10),
          reasoning |-> "Monitor prices for a few more days before booking."]
    ELSE [recommendation |-> WAIT, confidence |-> Rat(4, 10),
          reasoning |-> "Too early to book. Wait for better price data."]

\* PriceOptimizer._no_data_recommendation
_no_data_recommendation(route_key, current_price, days_until_departure) ==
    LET choice == NoDataChoice(days_until_departure)
    IN  OptimizationResult(
            [route_key |-> route_key, current_price |-> current_price,
             recommendation |-> choice.recommendation,
             confidence |-> choice.confidence, reasoning |-> choice.reasoning,
             suggested_action |-> _get_suggested_action(choice.recommendation),
             price_trend |-> None, optimal_purchase_window |-> None,
             days_until_departure |-> days_until_departure,
             historical_low |-> None, historical_high |-> None,
             price_volatility |-> None], 117)

\* PriceOptimizer._calculate_trend: the change from the first to the last price
\* of the list, relative to the first, against the floats 0.05 and -0.05.
_calculate_trend(prices) ==
    IF Len(prices) < 2 THEN Return("stable")
    ELSE LET recent_change ==
                 DecimalDiv(Rat(prices[Len(prices)] - prices[1], 1),
                            Rat(prices[1], 1), 152)
         IN  IF recent_change.raised THEN recent_change
             ELSE IF RatLt(Rat(5, 100), recent_change.value) THEN Return("rising")
             ELSE IF RatLt(recent_change.value, Rat(-5, 100)) THEN Return("falling")
             ELSE Return("stable")

\* PriceOptimizer._is_price_outlier: abs(current_price - avg) > 2 * std, that is
\* abs(current_price - avg) / 2 > std.
_is_price_outlier(current_price, historical_prices) ==
    IF Len(historical_prices) < 3 THEN FALSE
    ELSE LET avg == mean(historical_prices)
             std == stdev(historical_prices)
             dist == RatAbs(RatSub(Rat(current_price, 1), avg))
         IN  GtDeviation(Rat(dist.num, 2 * dist.den), std)

\* PriceOptimizer._analyze_price_trends: the dict's entries are evaluated in the
\* order written, so the first division that fails decides the exception.
_analyze_price_trends(history, current_price) ==
    LET prices == PricesOf(history.prices)
        recent_prices == LastN(prices, 7)
        vs_low == DecimalDiv(Rat(current_price, 1), Rat(Min(prices), 1), 138)
        vs_avg == DecimalDiv(Rat(current_price, 1), mean(prices), 139)
        trend == _calculate_trend(recent_prices)
    IN  IF vs_low.raised THEN vs_low
        ELSE IF vs_avg.raised THEN vs_avg
        ELSE IF trend.raised THEN trend
        ELSE Return(
            [historical_low |-> Min(prices),
             historical_high |-> Max(prices),
             historical_average |-> mean(prices),
             recent_average |-> mean(recent_prices),
             price_volatility |->
                 IF Len(prices) > 1 THEN stdev(prices) ELSE ZeroDeviation,
             current_vs_historical_low |-> vs_low.value,
             current_vs_average |-> vs_avg.value,
             trend |-> trend.value,
             is_outlier |-> _is_price_outlier(current_price, prices)])

\* The state of _generate_recommendation's decision: the recommendation so far
\* and the factors appended so far, each (name, weight, phrase).
Factor(name, weight, phrase) == [name |-> name, weight |-> weight, phrase |-> phrase]

\* Factor 1, days until departure (lines 181-197): recommendation starts as WAIT.
DaysFactor(days_until_departure) ==
    IF days_until_departure <= 3
    THEN [recommendation |-> BUY_NOW,
          factors |-> <<Factor("urgent", Rat(8, 10), "Very close to departure")>>]
    ELSE IF days_until_departure <= 7
    THEN [recommendation |-> WAIT,
          factors |-> <<Factor("soon", Rat(6, 10), "Close to departure")>>]
    ELSE IF days_until_departure <= 14
    THEN [recommendation |-> WAIT,
          factors |-> <<Factor("moderate", Rat(4, 10), "Moderate time remaining")>>]
    ELSE [recommendation |-> WAIT,
          factors |-> <<Factor("early", Rat(2, 10), "Plenty of time")>>]

\* Factor 2 without the assignment of BUY_NOW at an excellent price.
PriceFactorNoBuy(st, days_until_departure, analysis) ==
    IF RatLe(analysis.current_vs_historical_low, Rat(11, 10))
    THEN [recommendation |-> st.recommendation,
          factors |-> Append(st.factors,
                             Factor("excellent_price", Rat(9, 10), "Excellent price"))]
    ELSE IF RatLe(analysis.current_vs_average, Rat(9, 10))
    THEN [recommendation |-> st.recommendation,
          factors |-> Append(st.factors, Factor("good_price", Rat(7, 10), "Good price"))]
    ELSE IF RatLe(Rat(12, 10), analysis.current_vs_average)
    THEN [recommendation |->
              IF days_until_departure > 7 THEN WAIT ELSE st.recommendation,
          factors |-> Append(st.factors, Factor("high_price", Rat(8, 10), "High price"))]
    ELSE st

\* Factor 2 with three ifs in a row where the code has if/elif/elif.
PriceFactorEachRule(st, days_until_departure, analysis) ==
    LET st1 == IF RatLe(analysis.current_vs_historical_low, Rat(11, 10))
               THEN [recommendation |-> BUY_NOW,
                     factors |-> Append(st.factors,
                                        Factor("excellent_price", Rat(9, 10),
                                               "Excellent price"))]
               ELSE st
        st2 == IF RatLe(analysis.current_vs_average, Rat(9, 10))
               THEN [recommendation |-> st1.recommendation,
                     factors |-> Append(st1.factors,
                                        Factor("good_price", Rat(7, 10), "Good price"))]
               ELSE st1
    IN  IF RatLe(Rat(12, 10), analysis.current_vs_average)
        THEN [recommendation |->
                  IF days_until_departure > 7 THEN WAIT ELSE st2.recommendation,
              factors |-> Append(st2.factors,
                                 Factor("high_price", Rat(8, 10), "High price"))]
        ELSE st2

\* Factor 2, price against the historical data (lines 199-208).
PriceFactor(st, days_until_departure, analysis) ==
    IF RatLe(analysis.current_vs_historical_low, Rat(11, 10))
    THEN [recommendation |-> BUY_NOW,
          factors |-> Append(st.factors,
                             Factor("excellent_price", Rat(9, 10), "Excellent price"))]
    ELSE IF RatLe(analysis.current_vs_average, Rat(9, 10))
    THEN [recommendation |-> st.recommendation,
          factors |-> Append(st.factors, Factor("good_price", Rat(7, 10), "Good price"))]
    ELSE IF RatLe(Rat(12, 10), analysis.current_vs_average)
    THEN [recommendation |->
              IF days_until_departure > 7 THEN WAIT ELSE st.recommendation,
          factors |-> Append(st.factors, Factor("high_price", Rat(8, 10), "High price"))]
    ELSE st

\* Factor 3 with the rising rule guarded the way the falling rule is.
TrendFactorGuarded(st, analysis) ==
    IF analysis.trend = "falling"
    THEN [recommendation |->
              IF st.recommendation # BUY_NOW THEN WAIT ELSE st.recommendation,
          factors |-> Append(st.factors,
                             Factor("falling_trend", Rat(6, 10), "Prices are falling"))]
    ELSE IF analysis.trend = "rising"
    THEN [recommendation |->
              IF st.recommendation # WAIT THEN BUY_NOW ELSE st.recommendation,
          factors |-> Append(st.factors,
                             Factor("rising_trend", Rat(7, 10), "Prices are rising"))]
    ELSE st

\* Factor 3, price trend (lines 210-217).
TrendFactor(st, analysis) ==
    IF analysis.trend = "falling"
    THEN [recommendation |->
              IF st.recommendation # BUY_NOW THEN WAIT ELSE st.recommendation,
          factors |-> Append(st.factors,
                             Factor("falling_trend", Rat(6, 10), "Prices are falling"))]
    ELSE IF analysis.trend = "rising"
    THEN [recommendation |-> BUY_NOW,
          factors |-> Append(st.factors,
                             Factor("rising_trend", Rat(7, 10), "Prices are rising"))]
    ELSE st

\* statistics.mean of the weights, all floats with one decimal: fractions over 10.
RECURSIVE SumWeights(_)
SumWeights(factors) ==
    IF factors = <<>> THEN 0 ELSE factors[1].weight.num + SumWeights(Tail(factors))

MeanWeight(factors) == Rat(SumWeights(factors), 10 * Len(factors))

\* ". ".join(phrases)
RECURSIVE Join(_)
Join(factors) ==
    IF factors = <<>> THEN ""
    ELSE IF Len(factors) = 1 THEN factors[1].phrase
    ELSE factors[1].phrase \o ". " \o Join(Tail(factors))

\* min(confidence, 1.0)
MinOne(c) == IF RatLt(Rat(1, 1), c) THEN Rat(1, 1) ELSE c

\* PriceOptimizer._get_optimal_window
_get_optimal_window(days_until_departure, analysis) ==
    IF days_until_departure <= 3 THEN Return("Now - very close to departure")
    ELSE IF analysis.trend = "falling" THEN Return("2-4 days before departure")
    ELSE LET tenth == DecimalMulFloat(analysis.historical_average, Rat(1, 10), 267)
         IN  IF tenth.raised THEN tenth
             ELSE IF DeviationGt(analysis.price_volatility, tenth.value)
             THEN Return("1-2 weeks before departure")
             ELSE Return("1-2 weeks before departure")

\* An outcome together with the locals of _generate_recommendation at its exit:
\* recommendation and factors as they are then, analysis, and
\* factor_recommendation, the value recommendation had when line 217 was passed.
WithLocals(r, locals) ==
    [raised |-> r.raised, exc |-> r.exc, line |-> r.line, value |-> r.value,
     locals |-> locals]

\* PriceOptimizer._generate_recommendation
_generate_recommendation(current_price, days_until_departure, analysis, history) ==
    LET st3 == TrendFactor(
                   PriceFactor(DaysFactor(days_until_departure),
                               days_until_departure, analysis),
                   analysis)
        \* Factor 4 (line 220): the right-hand side of the comparison
        tenth == DecimalMulFloat(analysis.historical_average, Rat(1, 10), 220)
    IN  IF tenth.raised
        THEN WithLocals(tenth, Some([factor_recommendation |-> st3.recommendation,
                                     recommendation |-> st3.recommendation,
                                     factors |-> st3.factors,
                                     analysis |-> analysis]))
        ELSE LET factors ==
                     IF DeviationGt(analysis.price_volatility, tenth.value)
                     THEN Append(st3.factors,
                                 Factor("volatile", Rat(3, 10), "Volatile pricing"))
                     ELSE st3.factors
                 confidence == MeanWeight(factors)
                 reasoning == Join(factors) \o "."
                 recommendation ==
                     IF /\ analysis.is_outlier
                        /\ RatLe(analysis.current_vs_historical_low, Rat(105, 100))
                        /\ days_until_departure > 1
                     THEN PRICE_ALERT
                     ELSE st3.recommendation
                 locals == Some([factor_recommendation |-> st3.recommendation,
                                 recommendation |-> recommendation,
                                 factors |-> factors,
                                 analysis |-> analysis])
                 window == _get_optimal_window(days_until_departure, analysis)
             IN  IF window.raised THEN WithLocals(window, locals)
                 ELSE WithLocals(
                          OptimizationResult(
                              [route_key |-> history.route_key,
                               current_price |-> current_price,
                               recommendation |-> recommendation,
                               confidence |-> MinOne(confidence),
                               reasoning |-> reasoning,
                               suggested_action |-> _get_suggested_action(recommendation),
                               price_trend |-> Some(analysis.trend),
                               optimal_purchase_window |-> Some(window.value),
                               days_until_departure |-> days_until_departure,
                               historical_low |-> Some(analysis.historical_low),
                               historical_high |-> Some(analysis.historical_high),
                               price_volatility |-> Some(analysis.price_volatility)],
                              236),
                          locals)

---------------------------------------------------------------------------
(* optimizer.py: the operations of PriceOptimizer *)

\* What a call leaves behind: the operation, its arguments, and how it ended.
Call(op, args, outcome) ==
    [op |-> op, args |-> args, raised |-> outcome.raised, exc |-> outcome.exc,
     line |-> outcome.line, value |-> outcome.value, locals |-> outcome.locals]

\* A table that keeps the one series it is given and drops the others.
PutAlone(table, route_key, history) == [k \in {route_key} |-> history]

\* self.price_histories[route_key] = history
Put(table, route_key, history) ==
    [k \in DOMAIN table \cup {route_key} |->
        IF k = route_key THEN history ELSE table[k]]

\* PriceOptimizer.__init__
Init ==
    /\ price_histories = [k \in {} |-> None]
    /\ db = [stations |-> <<>>, routes |-> <<>>, prices |-> <<>>]
    /\ ret = Call("__init__", None, WithLocals(Return(None), None))

\* PriceOptimizer.add_price_data
add_price_data(price_data) ==
    LET route_key == _generate_route_key(price_data.route,
                                         price_data.route.departure_date)
        history == IF route_key \in DOMAIN price_histories
                   THEN price_histories[route_key]
                   ELSE PriceHistory(route_key)
    IN  /\ price_histories' =
               Put(price_histories, route_key, add_price(history, price_data))
        /\ ret' = Call("add_price_data", [price_data |-> price_data],
                       WithLocals(Return(None), None))
        /\ UNCHANGED db

\* The body of PriceOptimizer.get_optimization_recommendation; today is
\* datetime.now().date().
Recommend(table, route, current_price, travel_date, today) ==
    LET date == IF travel_date = None THEN route.departure_date ELSE travel_date[1]
        route_key == _generate_route_key(route, date)
        days_until_departure == date - today
    IN  IF \/ route_key \notin DOMAIN table
           \/ Len(table[route_key].prices) < 3
        THEN WithLocals(_no_data_recommendation(route_key, current_price,
                                                days_until_departure), None)
        ELSE LET history == table[route_key]
                 analysis == _analyze_price_trends(history, current_price)
             IN  IF analysis.raised THEN WithLocals(analysis, None)
                 ELSE _generate_recommendation(current_price, days_until_departure,
                                               analysis.value, history)

\* get_optimization_recommendation that creates the series it looks up, as
\* add_price_data does, when the table has none.
GetRecommendationCreating(route, current_price, travel_date, today) ==
    LET route_key ==
            _generate_route_key(route, IF travel_date = None
                                       THEN route.departure_date ELSE travel_date[1])
    IN  /\ ret' = Call("get_optimization_recommendation",
                       [route |-> route, current_price |-> current_price,
                        travel_date |-> travel_date, today |-> today],
                       Recommend(price_histories, route, current_price, travel_date,
                                 today))
        /\ price_histories' =
               IF route_key \in DOMAIN price_histories THEN price_histories
               ELSE Put(price_histories, route_key, PriceHistory(route_key))
        /\ UNCHANGED db

\* PriceOptimizer.get_optimization_recommendation
get_optimization_recommendation(route, current_price, travel_date, today) ==
    /\ ret' = Call("get_optimization_recommendation",
                   [route |-> route, current_price |-> current_price,
                    travel_date |-> travel_date, today |-> today],
                   Recommend(price_histories, route, current_price, travel_date, today))
    /\ UNCHANGED <<price_histories, db>>

\* [p.scraped_at for p in prices]
TimesOf(ps) == [i \in 1..Len(ps) |-> ps[i].scraped_at]

\* get_price_statistics that takes the collection period from the first and
\* the last sample of the list.
StatisticsArrival(table, route_key) ==
    IF route_key \notin DOMAIN table THEN Return(None)
    ELSE LET prices == PricesOf(table[route_key].prices)
         IN  IF prices = <<>> THEN Raise("ValueError", 283)
             ELSE Return(Some(
                 [route_key |-> route_key,
                  total_data_points |-> Len(prices),
                  lowest_price |-> Min(prices),
                  highest_price |-> Max(prices),
                  average_price |-> mean(prices),
                  price_volatility |->
                      IF Len(prices) > 1 THEN stdev(prices) ELSE ZeroDeviation,
                  data_collection_period |->
                      [start |-> table[route_key].prices[1].scraped_at,
                       end |-> table[route_key].prices[Len(prices)].scraped_at]]))

\* The body of PriceOptimizer.get_price_statistics; min() of an empty list
\* raises ValueError.
Statistics(table, route_key) ==
    IF route_key \notin DOMAIN table THEN Return(None)
    ELSE LET prices == PricesOf(table[route_key].prices)
         IN  IF prices = <<>> THEN Raise("ValueError", 283)
             ELSE Return(Some(
                 [route_key |-> route_key,
                  total_data_points |-> Len(prices),
                  lowest_price |-> Min(prices),
                  highest_price |-> Max(prices),
                  average_price |-> mean(prices),
                  price_volatility |->
                      IF Len(prices) > 1 THEN stdev(prices) ELSE ZeroDeviation,
                  data_collection_period |->
                      [start |-> Min(TimesOf(table[route_key].prices)),
                       end |-> Max(TimesOf(table[route_key].prices))]]))

\* get_price_statistics over a table that creates the series it is asked for,
\* as a defaultdict does.
GetPriceStatisticsCreating(route_key) ==
    /\ ret' = Call("get_price_statistics", [route_key |-> route_key],
                   WithLocals(Statistics(price_histories, route_key), None))
    /\ price_histories' =
           IF route_key \in DOMAIN price_histories THEN price_histories
           ELSE Put(price_histories, route_key, PriceHistory(route_key))
    /\ UNCHANGED db

\* PriceOptimizer.get_price_statistics
get_price_statistics(route_key) ==
    /\ ret' = Call("get_price_statistics", [route_key |-> route_key],
                   WithLocals(Statistics(price_histories, route_key), None))
    /\ UNCHANGED <<price_histories, db>>

---------------------------------------------------------------------------
(* database.py: PriceDatabase *)

\* float(Decimal): the nearest double, a value of another type.  A whole amount
\* is a double, so the double of d is d itself, as a float.
float(d) == [float |-> d]

\* sqlite3's adapters: a datetime or a date goes into the file as its ISO text,
\* and comes back as that text.  Texts of one format are ordered as their
\* instants are.
adapt(t) == [text |-> t]

\* cursor.fetchone() of a SELECT id: the first row found.
FetchOne(ids) == CHOOSE i \in ids : \A j \in ids : i <= j

\* add_station without the SELECT: a row is inserted whatever the table holds.
AddStationInsert(tables, station) ==
    [db |-> [tables EXCEPT !.stations =
                Append(@, [id |-> Len(tables.stations) + 1, code |-> station.code])],
     id |-> Len(tables.stations) + 1]

\* PriceDatabase.add_station: the tables after the call and the id returned.
add_station(tables, station) ==
    LET existing == {i \in 1..Len(tables.stations) :
                        tables.stations[i].code = station.code}
    IN  IF existing # {}
        THEN [db |-> tables, id |-> tables.stations[FetchOne(existing)].id]
        ELSE LET station_id == Len(tables.stations) + 1
             IN  [db |-> [tables EXCEPT !.stations =
                             Append(@, [id |-> station_id, code |-> station.code])],
                  id |-> station_id]

\* PriceDatabase.add_route: the tables after the call and the id returned.
add_route(tables, route) ==
    LET origin == add_station(tables, route.origin)
        destination == add_station(origin.db, route.destination)
        departure_time == adapt(<<route.departure_date, route.departure_hour>>)
        Same(row) == /\ row.origin_id = origin.id
                     /\ row.destination_id = destination.id
                     /\ row.train_number = route.train_number
                     /\ row.departure_time = departure_time
        existing == {i \in 1..Len(destination.db.routes) :
                        Same(destination.db.routes[i])}
    IN  IF existing # {}
        THEN [db |-> destination.db,
              id |-> destination.db.routes[FetchOne(existing)].id]
        ELSE LET route_id == Len(destination.db.routes) + 1
             IN  [db |-> [destination.db EXCEPT !.routes =
                             Append(@, [id |-> route_id,
                                        origin_id |-> origin.id,
                                        destination_id |-> destination.id,
                                        train_number |-> route.train_number,
                                        train_type |-> route.train_type,
                                        departure_time |-> departure_time])],
                  id |-> route_id]

\* PriceDatabase.add_station and PriceDatabase.add_route, called by themselves.
PriceDatabase_add_station(station) ==
    LET added == add_station(db, station)
    IN  /\ db' = added.db
        /\ ret' = Call("PriceDatabase.add_station", [station |-> station],
                       WithLocals(Return([id |-> added.id]), None))
        /\ UNCHANGED price_histories

PriceDatabase_add_route(route) ==
    LET added == add_route(db, route)
    IN  /\ db' = added.db
        /\ ret' = Call("PriceDatabase.add_route", [route |-> route],
                       WithLocals(Return([id |-> added.id]), None))
        /\ UNCHANGED price_histories

\* PriceDatabase.add_price_data; what it returns is the id of the new row.
PriceDatabase_add_price_data(price_data) ==
    LET route == add_route(db, price_data.route)
        price_id == Len(route.db.prices) + 1
    IN  /\ db' = [route.db EXCEPT !.prices =
                      Append(@, [id |-> price_id,
                                 route_id |-> route.id,
                                 price |-> float(price_data.price),
                                 currency |-> price_data.currency,
                                 ticket_type |-> price_data.ticket_type,
                                 availability |-> price_data.availability,
                                 scraped_at |-> adapt(price_data.scraped_at),
                                 travel_date |->
                                     adapt(price_data.route.departure_date)])]
        /\ ret' = Call("PriceDatabase.add_price_data", [price_data |-> price_data],
                       WithLocals(Return([id |-> price_id]), None))
        /\ UNCHANGED price_histories

\* The rows the SELECT of get_price_history finds: the prices rows, joined to
\* their route and its stations, of the two station codes and the travel date,
\* scraped days_back days before `now` (datetime('now')) or later.
HistoryRows(tables, origin_code, destination_code, travel_date, days_back, now) ==
    {i \in 1..Len(tables.prices) :
        LET p == tables.prices[i]
            r == tables.routes[p.route_id]
        IN  /\ tables.stations[r.origin_id].code = origin_code
            /\ tables.stations[r.destination_id].code = destination_code
            /\ p.travel_date = adapt(travel_date)
            /\ p.scraped_at.text >= now - days_back}

\* dict(row): the columns of the SELECT.
HistoryRecord(tables, i) ==
    LET p == tables.prices[i]
        r == tables.routes[p.route_id]
    IN  [price |-> p.price, currency |-> p.currency,
         ticket_type |-> p.ticket_type, availability |-> p.availability,
         scraped_at |-> p.scraped_at, travel_date |-> p.travel_date,
         train_number |-> r.train_number, train_type |-> r.train_type,
         departure_time |-> r.departure_time,
         origin_code |-> tables.stations[r.origin_id].code,
         dest_code |-> tables.stations[r.destination_id].code]

\* ORDER BY p.scraped_at ASC: the orders in which scraped_at never falls.
HistoryOrdersAsc(tables, rows) ==
    {order \in [1..Cardinality(rows) -> rows] :
        /\ \A i, j \in 1..Cardinality(rows) : i # j => order[i] # order[j]
        /\ \A i, j \in 1..Cardinality(rows) :
               i < j => tables.prices[order[i]].scraped_at.text
                            <= tables.prices[order[j]].scraped_at.text}

\* ORDER BY p.scraped_at DESC: the orders of the rows in which scraped_at never
\* grows.  SQL leaves the order of rows of equal scraped_at open.
HistoryOrders(tables, rows) ==
    {order \in [1..Cardinality(rows) -> rows] :
        /\ \A i, j \in 1..Cardinality(rows) : i # j => order[i] # order[j]
        /\ \A i, j \in 1..Cardinality(rows) :
               i < j => tables.prices[order[i]].scraped_at.text
                            >= tables.prices[order[j]].scraped_at.text}

\* PriceDatabase.get_price_history
get_price_history(origin_code, destination_code, travel_date, days_back, now) ==
    /\ \E order \in HistoryOrders(db, HistoryRows(db, origin_code, destination_code,
                                                   travel_date, days_back, now)) :
           ret' = Call("get_price_history",
                       [origin_code |-> origin_code,
                        destination_code |-> destination_code,
                        travel_date |-> travel_date,
                        days_back |-> days_back, now |-> now],
                       WithLocals(
                           Return([i \in 1..Len(order) |-> HistoryRecord(db, order[i])]),
                           None))
    /\ UNCHANGED <<price_histories, db>>

---------------------------------------------------------------------------
(* The callers: which samples are ingested and which requests are made *)

\* The number of samples in the table.
RECURSIVE CountSamples(_, _)
CountSamples(table, keys) ==
    IF keys = {} THEN 0
    ELSE LET k == CHOOSE x \in keys : TRUE
         IN  Len(table[k].prices) + CountSamples(table, keys \ {k})

TotalSamples == CountSamples(price_histories, DOMAIN price_histories)

\* Any interleaving of the three operations: samples from `samples`, at most
\* `cap` of them; requests for `routes` at `prices`, for the route's own date or
\* one of `dates`, made on one of the days `todays`; statistics for `keys`.
NextOn(samples, cap, routes, prices, dates, todays, keys) ==
    \/ \E price_data \in samples :
           TotalSamples < cap /\ add_price_data(price_data)
    \/ \E route \in routes, current_price \in prices,
          travel_date \in {None} \cup {Some(d) : d \in dates}, today \in todays :
           get_optimization_recommendation(route, current_price, travel_date, today)
    \/ \E route_key \in keys : get_price_statistics(route_key)

RouteA == TrainRoute("MADRI", "BCNSA", "AVE2104", "AVE", 100, 8)

RouteB == TrainRoute("MADRI", "SEVIL", "02100", "AVLO", 101, 10)

KeyOf(route) == _generate_route_key(route, route.departure_date)

\* Samples of the ticket type "Turista" with 5 seats available.
SamplesOf(routes, prices, times) ==
    {PriceData(r, p, "Turista", 5, t) : r \in routes, p \in prices, t \in times}

\* Samples of any ticket type and any number of seats.
TicketsOf(routes, prices, tickets, seats, times) ==
    {PriceData(r, p, ticket, n, t) :
        r \in routes, p \in prices, ticket \in tickets, n \in seats, t \in times}

\* The days on which RouteA's departure is `days` days ahead.
DaysAhead(days) == {RouteA.departure_date - d : d \in days}

\* The table under ingestion: two routes, prices with a zero, two timestamps,
\* at most MaxTable samples.
MaxTable == 3

Next ==
    NextOn(SamplesOf({RouteA, RouteB}, {0, 10, 20}, {1, 2}), MaxTable,
           {RouteA, RouteB}, {10}, {}, DaysAhead({-1, 2, 7, 8, 30, 31}),
           {KeyOf(RouteA), KeyOf(RouteB), "MADRI_BCNSA_99_AVE"})

Spec == Init /\ [][Next]_vars

\* The recommendation engine: one route with up to MaxSeries samples, candidate
\* prices on both sides of every price rule, and days on both sides of every
\* breakpoint.
MaxSeries == 4

NextRec ==
    NextOn(SamplesOf({RouteA}, {0, 10, 11, 20}, {1}), MaxSeries,
           {RouteA}, {9, 12, 24}, {},
           DaysAhead({-1, 1, 2, 3, 4, 7, 8, 14, 15, 30, 31}),
           {KeyOf(RouteA)})

SpecRec == Init /\ [][NextRec]_vars

\* One series of prices around 100: after up to LenC3 samples, a request at 95
\* five days ahead.
LenC3 == 4

NextC3 ==
    NextOn(SamplesOf({RouteA}, {90, 95, 100, 110, 115}, {1}), LenC3,
           {RouteA}, {95}, {}, DaysAhead({5}), {KeyOf(RouteA)})

SpecC3 == Init /\ [][NextC3]_vars

\* One series of prices 100 and 70: after up to LenC4 samples, a request at 72
\* twenty days ahead.
LenC4 == 7

NextC4 ==
    NextOn(SamplesOf({RouteA}, {70, 100}, {1}), LenC4,
           {RouteA}, {72}, {}, DaysAhead({20}), {KeyOf(RouteA)})

SpecC4 == Init /\ [][NextC4]_vars

\* One series of the prices 48, 50, 52, 55, 90: after up to LenC5 samples, a
\* request at 50 two days ahead.
LenC5 == 5

NextC5 ==
    NextOn(SamplesOf({RouteA}, {48, 50, 52, 55, 90}, {1}), LenC5,
           {RouteA}, {50}, {}, DaysAhead({2}), {KeyOf(RouteA)})

SpecC5 == Init /\ [][NextC5]_vars

\* A later train of RouteA's day: the same stations, date and train type.
RouteALate == TrainRoute("MADRI", "BCNSA", "AVE2112", "AVE", 100, 19)

\* The join between ingestion and querying: samples of three trains, two of
\* them of one route and day, at most MaxKey samples; requests for each train,
\* for its own date and for the day after.
MaxKey == 3

NextKey ==
    NextOn(SamplesOf({RouteA, RouteALate, RouteB}, {10, 20}, {1}), MaxKey,
           {RouteA, RouteALate, RouteB}, {10}, {101}, DaysAhead({5}),
           {KeyOf(RouteA), KeyOf(RouteB)})

SpecKey == Init /\ [][NextKey]_vars

\* The optimizer and the store side by side, as a caller holding both has
\* them: NextOn's calls of the optimizer, and samples written to the store, at
\* most `cap` of them, and read back for the pairs of stations `pairs`, the
\* travel dates `dates` and the windows `windows`, at the times `nows`.
NextStoreOn(samples, cap, routes, prices, todays, keys, stored, pairs, dates, windows, nows) ==
    \/ NextOn(samples, cap, routes, prices, {}, todays, keys)
    \/ \E price_data \in stored :
           Len(db.prices) < cap /\ PriceDatabase_add_price_data(price_data)
    \/ \E pair \in pairs, travel_date \in dates, days_back \in windows,
          now \in nows :
           get_price_history(pair[1], pair[2], travel_date, days_back, now)

\* Samples of two routes scraped on day 60 and on day 95, read back on day 96
\* with the default window of 30 days and with one of 60 days, for the
\* stations of the first route in both directions.
MaxStore == 3

NextStore ==
    NextStoreOn(SamplesOf({RouteA}, {10}, {95}), MaxStore,
                {RouteA}, {10}, DaysAhead({5}), {KeyOf(RouteA)},
                SamplesOf({RouteA}, {10, 20}, {60, 95})
                    \cup SamplesOf({RouteB}, {10}, {95}),
                {<<"MADRI", "BCNSA">>, <<"BCNSA", "MADRI">>}, {100}, {30, 60},
                {96})

SpecStore == Init /\ [][NextStore]_vars

\* A series longer than the trailing window: up to LenTrend samples at prices
\* 5% apart, so that a change of exactly 5% happens, and a request at 100 five
\* days ahead.
LenTrend == 8

NextTrend ==
    NextOn(SamplesOf({RouteA}, {95, 100, 105}, {1}), LenTrend,
           {RouteA}, {100}, {}, DaysAhead({5}), {KeyOf(RouteA)})

SpecTrend == Init /\ [][NextTrend]_vars

\* The writes of the store by themselves: stations, routes and samples added
\* in any order, at most MaxRows samples.
MaxRows == 3

NextRows ==
    \/ \E station \in {[code |-> "MADRI"], [code |-> "BCNSA"], [code |-> "SEVIL"]} :
           PriceDatabase_add_station(station)
    \/ \E route \in {RouteA, RouteALate, RouteB} : PriceDatabase_add_route(route)
    \/ \E price_data \in SamplesOf({RouteA, RouteALate, RouteB}, {10}, {95}) :
           Len(db.prices) < MaxRows /\ PriceDatabase_add_price_data(price_data)

SpecRows == Init /\ [][NextRows]_vars

\* Station codes are any strings: two routes of one day and train type whose
\* codes hold the separator of the key, "A_B" to "C" and "A" to "B_C", and at
\* most MaxCodes samples.
RouteAB_C == TrainRoute("A_B", "C", "AVE2104", "AVE", 100, 8)

RouteA_BC == TrainRoute("A", "B_C", "AVE2112", "AVE", 100, 9)

MaxCodes == 3

NextCodes ==
    NextOn(SamplesOf({RouteAB_C, RouteA_BC}, {10, 20}, {1}), MaxCodes,
           {RouteAB_C, RouteA_BC}, {10}, {}, DaysAhead({5}),
           {KeyOf(RouteAB_C), KeyOf(RouteA_BC)})

SpecCodes == Init /\ [][NextCodes]_vars

\* What PriceData constructs: prices and seat counts below zero, zero and
\* above; at most MaxSample samples of one route.
MaxSample == 3

NextSample ==
    NextOn(TicketsOf({RouteA}, {-5, 0, 10}, {"Turista"}, {-1, 0, 5}, {1}), MaxSample,
           {RouteA}, {10}, {}, DaysAhead({5}), {KeyOf(RouteA)})

SpecSample == Init /\ [][NextSample]_vars

---------------------------------------------------------------------------
(* The last call, when it was a request for a recommendation *)

IsRequest == ret.op = "get_optimization_recommendation"

RequestDate ==
    IF ret.args.travel_date = None THEN ret.args.route.departure_date
    ELSE ret.args.travel_date[1]

RequestKey == _generate_route_key(ret.args.route, RequestDate)

RequestDays == RequestDate - ret.args.today

\* The prices of the requested key's series, none when there is no series.
RequestPrices ==
    IF RequestKey \in DOMAIN price_histories
    THEN PricesOf(price_histories[RequestKey].prices)
    ELSE <<>>

\* The request got a result with this recommendation and this confidence.
Returned(recommendation, confidence) ==
    /\ ~ret.raised
    /\ ret.value.recommendation = recommendation
    /\ RatEq(ret.value.confidence, confidence)

---------------------------------------------------------------------------
(* C1 *)

\* C1: a request whose key has no series, or a series of fewer than 3 samples,
\* returns BUY_NOW with confidence 0.5 when at most 7 days remain, WAIT with 0.3
\* for 8 to 30 days, and WAIT with 0.4 beyond 30 days; never PRICE_ALERT or
\* NO_DATA.
C1_NoDataPolicy ==
    (IsRequest /\ Len(RequestPrices) < 3) =>
        /\ RequestDays <= 7 => Returned(BUY_NOW, Rat(5, 10))
        /\ (8 <= RequestDays /\ RequestDays <= 30) => Returned(WAIT, Rat(3, 10))
        /\ RequestDays > 30 => Returned(WAIT, Rat(4, 10))
        /\ ~ret.raised /\ ret.value.recommendation \notin {PRICE_ALERT, NO_DATA}

\* A request 30 days ahead for a key with two samples, while another key has a
\* series too.
C1_Witness ==
    /\ IsRequest
    /\ Len(RequestPrices) = 2
    /\ RequestDays = 30
    /\ Cardinality(DOMAIN price_histories) = 2
    /\ Returned(WAIT, Rat(3, 10))

---------------------------------------------------------------------------
(* C2, C6, C7: the data-driven path *)

\* The request went through _generate_recommendation: its locals are kept.
IsDataDriven == IsRequest /\ ret.locals # None

Locals == ret.locals[1]

FactorNames == [i \in 1..Len(Locals.factors) |-> Locals.factors[i].name]

Triggered(name) == \E i \in 1..Len(Locals.factors) : Locals.factors[i].name = name

\* The condition of the override of lines 231-233.
OverrideCondition ==
    /\ Locals.analysis.is_outlier
    /\ RatLe(Locals.analysis.current_vs_historical_low, Rat(105, 100))
    /\ RequestDays > 1

\* C2: on the data-driven path, when is_outlier holds, ratio_to_low <= 1.05 and
\* more than one day remains, the returned recommendation is PRICE_ALERT,
\* whatever the factor rules produced.
C2_PriceAlertOverride ==
    (IsDataDriven /\ OverrideCondition) =>
        (~ret.raised /\ ret.value.recommendation = PRICE_ALERT)

\* C6: on the data-driven path, when the trend of the trailing window is
\* rising, the recommendation the factor rules leave (its value before the
\* override) is BUY_NOW, for every number of days and every price ratio.
C6_RisingWins ==
    (IsDataDriven /\ Locals.analysis.trend = "rising") =>
        Locals.factor_recommendation = BUY_NOW

\* A rising trend at a high price more than 7 days ahead: the high-price rule
\* has assigned WAIT and the rising rule BUY_NOW after it.
C6_Witness ==
    /\ IsDataDriven
    /\ Locals.analysis.trend = "rising"
    /\ Triggered("high_price")
    /\ RequestDays > 7
    /\ Locals.factor_recommendation = BUY_NOW

\* C7: on the data-driven path the returned confidence is min(1.0, mean of the
\* weights of the triggered factors), and it lies in [0, 1].
C7_Confidence ==
    IsDataDriven =>
        /\ ~ret.raised
        /\ RatEq(ret.value.confidence, MinOne(MeanWeight(Locals.factors)))
        /\ RatLe(Rat(0, 1), ret.value.confidence)
        /\ RatLe(ret.value.confidence, Rat(1, 1))

---------------------------------------------------------------------------
(* C3, C4, C5: the scenarios *)

\* A request at 95, five days ahead, on a series of mean 100 and sample standard
\* deviation 10 whose lowest price makes ratio_to_low <= 1.05.
C3_Scenario ==
    /\ IsRequest
    /\ ret.args.current_price = 95
    /\ RequestDays = 5
    /\ Len(RequestPrices) >= 3
    /\ RatEq(mean(RequestPrices), Rat(100, 1))
    /\ RatEq(variance(RequestPrices), Rat(100, 1))
    /\ 100 * 95 <= 105 * Min(RequestPrices)

\* C3 as stated: in that scenario the request returns PRICE_ALERT.
C3_Original ==
    C3_Scenario => (~ret.raised /\ ret.value.recommendation = PRICE_ALERT)

\* C3, amended: in that scenario the price is no outlier (|95 - 100| = 5 is not
\* above 2 * 10), so the override condition fails; the factor rules assign
\* BUY_NOW at the excellent price, and PRICE_ALERT is not returned.
C3_NoAlert ==
    C3_Scenario =>
        /\ IsDataDriven
        /\ ~Locals.analysis.is_outlier
        /\ ~OverrideCondition
        /\ Triggered("excellent_price")
        /\ Locals.factor_recommendation = BUY_NOW
        /\ Locals.recommendation # PRICE_ALERT
        /\ ~(~ret.raised /\ ret.value.recommendation = PRICE_ALERT)

\* The scenario on a series that ends low, so that no rising trend assigns
\* BUY_NOW.
C3_Witness ==
    /\ C3_Scenario
    /\ IsDataDriven
    /\ Locals.analysis.trend = "falling"
    /\ Locals.factor_recommendation = BUY_NOW

\* A request at 72, twenty days ahead, after 100 six times and then 70.
C4_Scenario ==
    /\ IsRequest
    /\ ret.args.current_price = 72
    /\ RequestDays = 20
    /\ RequestPrices = <<100, 100, 100, 100, 100, 100, 70>>

\* C4 as stated: the scenario reports trend falling, triggers good_price and
\* returns WAIT.
C4_Original ==
    C4_Scenario =>
        /\ IsDataDriven
        /\ Locals.analysis.trend = "falling"
        /\ Triggered("good_price")
        /\ ~ret.raised
        /\ ret.value.recommendation = WAIT

\* C4, amended: the scenario computes trend falling and triggers excellent_price
\* (72/70 <= 1.10), not good_price; the factor rules leave BUY_NOW, which the
\* falling rule keeps; the override condition holds (an outlier within 5% of
\* the low, 20 days ahead); WAIT is not returned.
C4_ExcellentPrice ==
    C4_Scenario =>
        /\ IsDataDriven
        /\ Locals.analysis.trend = "falling"
        /\ FactorNames = <<"early", "excellent_price", "falling_trend">>
        /\ Locals.factor_recommendation = BUY_NOW
        /\ OverrideCondition
        /\ ~(~ret.raised /\ ret.value.recommendation = WAIT)

C4_Witness ==
    /\ C4_Scenario
    /\ IsDataDriven
    /\ RatEq(Locals.analysis.current_vs_historical_low, Rat(72, 70))
    /\ Triggered("falling_trend")

\* A request at 50, two days ahead, after 50, 52, 48, 55, 90.
C5_Scenario ==
    /\ IsRequest
    /\ ret.args.current_price = 50
    /\ RequestDays = 2
    /\ RequestPrices = <<50, 52, 48, 55, 90>>

\* C5: the scenario returns BUY_NOW with confidence 0.675, the mean of the
\* weights of urgent, excellent_price, rising_trend and volatile.
C5_BuyNow ==
    C5_Scenario => Returned(BUY_NOW, Rat(675, 1000))

---------------------------------------------------------------------------
(* C8, C9, C10: the series *)

\* low <= every price of the list <= high, and low <= average <= high.
Bracketed(low, high, average, prices) ==
    /\ \A i \in 1..Len(prices) : low <= prices[i] /\ prices[i] <= high
    /\ RatLe(Rat(low, 1), average)
    /\ RatLe(average, Rat(high, 1))

IsStatistics == ret.op = "get_price_statistics" /\ ~ret.raised /\ ret.value # None

\* C8: for every series, the lowest price is at most and the highest at least
\* every price of the series, and the average lies between them: for the fields
\* of the series, for the values get_price_statistics returns and for the
\* values the analyzer computes.
C8_LowAverageHigh ==
    /\ \A k \in DOMAIN price_histories :
           LET h == price_histories[k]
           IN  Bracketed(h.lowest_price[1], h.highest_price[1],
                         h.average_price[1], PricesOf(h.prices))
    /\ IsStatistics =>
           Bracketed(ret.value[1].lowest_price, ret.value[1].highest_price,
                     ret.value[1].average_price,
                     PricesOf(price_histories[ret.args.route_key].prices))
    /\ IsDataDriven =>
           Bracketed(Locals.analysis.historical_low, Locals.analysis.historical_high,
                     Locals.analysis.historical_average, RequestPrices)

\* Statistics of a series of three samples whose lowest price came last and
\* whose average is strictly between its lowest and its highest price.
C8_Witness ==
    /\ IsStatistics
    /\ ret.value[1].total_data_points = 3
    /\ LET h == price_histories[ret.args.route_key]
       IN  /\ h.prices[3].price = h.lowest_price[1]
           /\ h.prices[3].price < h.prices[1].price
           /\ RatLt(Rat(h.lowest_price[1], 1), h.average_price[1])
           /\ RatLt(h.average_price[1], Rat(h.highest_price[1], 1))
           /\ ret.value[1].lowest_price = h.lowest_price[1]

IsPrefix(s, t) == Len(s) <= Len(t) /\ SubSeq(t, 1, Len(s)) = s

\* The series of a key, empty when the table has none.
SeriesOf(table, k) == IF k \in DOMAIN table THEN table[k].prices ELSE <<>>

\* C9: every step keeps every key and leaves each series a prefix of what it
\* becomes, and add_price_data(s) makes the series of s's key the old one with
\* s appended.
C9_AppendOnly ==
    [][/\ \A k \in DOMAIN price_histories :
              /\ k \in DOMAIN price_histories'
              /\ IsPrefix(price_histories[k].prices, price_histories'[k].prices)
       /\ ret'.op = "add_price_data" =>
              LET s == ret'.args.price_data
                  k == KeyOf(s.route)
              IN  /\ k \in DOMAIN price_histories'
                  /\ price_histories'[k].prices =
                         Append(SeriesOf(price_histories, k), s)]_vars

\* A sample appended to a series that held a different one.
C9_Witness ==
    /\ ret.op = "add_price_data"
    /\ LET s == ret.args.price_data
           series == price_histories[KeyOf(s.route)].prices
       IN  /\ Len(series) >= 2
           /\ series[Len(series)] = s
           /\ series[1] # s

\* C10: the lowest_price, highest_price and average_price of every series are
\* the minimum, the maximum and the mean of all its prices.
C10_DerivedFields ==
    \A k \in DOMAIN price_histories :
        LET h == price_histories[k]
            prices == PricesOf(h.prices)
            n == Len(prices)
        IN  /\ n >= 1
            /\ h.lowest_price # None
            /\ \E i \in 1..n : prices[i] = h.lowest_price[1]
            /\ \A i \in 1..n : h.lowest_price[1] <= prices[i]
            /\ h.highest_price # None
            /\ \E i \in 1..n : prices[i] = h.highest_price[1]
            /\ \A i \in 1..n : prices[i] <= h.highest_price[1]
            /\ h.average_price # None
            /\ h.average_price[1].den # 0
            /\ h.average_price[1].num * n = Sum(prices) * h.average_price[1].den

\* A series whose last sample is below every earlier one: the append changed the
\* minimum and the mean.
C10_Witness ==
    \E k \in DOMAIN price_histories :
        LET prices == PricesOf(price_histories[k].prices)
            n == Len(prices)
        IN  /\ n >= 2
            /\ \A i \in 1..(n - 1) : prices[n] < prices[i]
            /\ price_histories[k].lowest_price = Some(prices[n])
            /\ ~RatEq(price_histories[k].average_price[1], Rat(prices[1], 1))

---------------------------------------------------------------------------
(* C11, C12: get_price_statistics *)

\* C11: a call that is not add_price_data leaves the table as it is, and a call
\* of get_price_statistics that follows one for the same key ends as that one
\* did: the same return value, None or the same record.
C11_Idempotent ==
    [][/\ ret'.op # "add_price_data" => price_histories' = price_histories
       /\ (/\ ret.op = "get_price_statistics"
           /\ ret'.op = "get_price_statistics"
           /\ ret'.args = ret.args) => ret' = ret]_vars

\* Statistics asked for a key that has no series, while two other keys have
\* one: None is returned and no series has appeared for the key.
C11_Witness ==
    /\ ret.op = "get_price_statistics"
    /\ ~ret.raised
    /\ ret.value = None
    /\ ret.args.route_key \notin DOMAIN price_histories
    /\ Cardinality(DOMAIN price_histories) = 2

\* x is the least (greatest) of the values of the non-empty sequence s.
IsLeast(x, s) ==
    (\E i \in 1..Len(s) : s[i] = x) /\ (\A i \in 1..Len(s) : x <= s[i])

IsGreatest(x, s) ==
    (\E i \in 1..Len(s) : s[i] = x) /\ (\A i \in 1..Len(s) : x >= s[i])

\* C12: get_price_statistics returns None when the key has no series; otherwise
\* a record whose total_data_points, lowest_price, highest_price and
\* average_price are the count, minimum, maximum and mean of all the prices of
\* the series, and whose collection period runs from the earliest to the
\* latest scraped_at of the series.
C12_Statistics ==
    ret.op = "get_price_statistics" =>
        LET k == ret.args.route_key
        IN  /\ ~ret.raised
            /\ k \notin DOMAIN price_histories => ret.value = None
            /\ k \in DOMAIN price_histories =>
                   /\ ret.value # None
                   /\ LET series == price_histories[k].prices
                          st == ret.value[1]
                      IN  /\ st.total_data_points = Len(series)
                          /\ IsLeast(st.lowest_price, PricesOf(series))
                          /\ IsGreatest(st.highest_price, PricesOf(series))
                          /\ st.average_price.num * Len(series) =
                                 Sum(PricesOf(series)) * st.average_price.den
                          /\ IsLeast(st.data_collection_period.start, TimesOf(series))
                          /\ IsGreatest(st.data_collection_period.end, TimesOf(series))

\* Statistics of a series of three samples that arrived with the latest
\* timestamp first and the earliest last.
C12_Witness ==
    /\ IsStatistics
    /\ LET series == price_histories[ret.args.route_key].prices
       IN  /\ Len(series) = 3
           /\ series[1].scraped_at > series[3].scraped_at
           /\ ret.value[1].data_collection_period.start = series[3].scraped_at
           /\ ret.value[1].data_collection_period.end = series[1].scraped_at
           /\ series[1].price # series[2].price

---------------------------------------------------------------------------
(* C13: the key joins ingestion and querying *)

\* The four inputs of the key that a route and a date give.
KeyInputs(route, travel_date) ==
    <<route.origin.code, route.destination.code, travel_date, route.train_type>>

\* Where the samples of the table are: the pairs of a key and a position.
Places ==
    UNION {{<<k, i>> : i \in 1..Len(price_histories[k].prices)} :
           k \in DOMAIN price_histories}

SampleAt(place) == price_histories[place[1]].prices[place[2]]

\* The samples ingested for the route of the request: those whose route and
\* departure date give the key inputs that the request's route and date give.
SamplesForRequest ==
    {place \in Places :
        KeyInputs(SampleAt(place).route, SampleAt(place).route.departure_date)
            = KeyInputs(ret.args.route, RequestDate)}

\* The request went past the guard of lines 79-80: it ended in
\* _analyze_price_trends (lines 127-159) or in _generate_recommendation.
OnDataPath ==
    IsRequest /\ (ret.locals # None \/ (ret.raised /\ ret.line \in 127..159))

\* C13: two samples whose routes and dates agree on origin code, destination
\* code, date and train type are stored under one key; a request looks up the
\* key under which the samples with its four inputs are stored; and a request
\* for the route's own date after 3 or more ingests for the route takes the
\* data-driven path.
C13_JoinKey ==
    /\ \A p, q \in Places :
           KeyInputs(SampleAt(p).route, SampleAt(p).route.departure_date)
               = KeyInputs(SampleAt(q).route, SampleAt(q).route.departure_date)
           => p[1] = q[1]
    /\ IsRequest =>
           /\ \A p \in SamplesForRequest : p[1] = RequestKey
           /\ (ret.args.travel_date = None /\ Cardinality(SamplesForRequest) >= 3)
                  => OnDataPath

\* A request for the later train's own date after two samples of the earlier
\* train and one of the later: the three are one series, and the request takes
\* the data-driven path.
C13_Witness ==
    /\ IsRequest
    /\ ret.args.route = RouteALate
    /\ ret.args.travel_date = None
    /\ Cardinality(SamplesForRequest) = 3
    /\ Cardinality({p \in SamplesForRequest : SampleAt(p).route = RouteA}) = 2
    /\ OnDataPath

---------------------------------------------------------------------------
(* C14: what a sample may hold *)

\* C14: every sample of every series has a price of at least 0 and an
\* availability of at least 0.
C14_NonNegative ==
    \A p \in Places : SampleAt(p).price >= 0 /\ SampleAt(p).availability >= 0

---------------------------------------------------------------------------
(* C15, C16, C17: the store *)

\* A record of get_price_history reproduces a sample: its route's stations and
\* travel date, and its price, timestamp, ticket type and availability, each
\* as the store keeps it.
Reproduces(record, sample) ==
    /\ record.origin_code = sample.route.origin.code
    /\ record.dest_code = sample.route.destination.code
    /\ record.travel_date = adapt(sample.route.departure_date)
    /\ record.price = float(sample.price)
    /\ record.scraped_at = adapt(sample.scraped_at)
    /\ record.ticket_type = sample.ticket_type
    /\ record.availability = sample.availability

\* The store holds a sample: a prices row, with its route, reproduces it.
Stored(tables, sample) ==
    \E i \in 1..Len(tables.prices) : Reproduces(HistoryRecord(tables, i), sample)

\* C15: when PriceOptimizer.add_price_data has returned, the store holds the
\* sample it was given.
C15_Persisted ==
    (ret.op = "add_price_data" /\ ~ret.raised) =>
        Stored(db, ret.args.price_data)

\* C16: a sample written with PriceDatabase.add_price_data and then read back
\* with get_price_history for its origin code, destination code and travel
\* date (and the default days_back of 30) is among the records returned, with
\* its price, timestamp, ticket type and availability.
C16_RoundTrip ==
    [][(/\ ret.op = "PriceDatabase.add_price_data"
        /\ ret'.op = "get_price_history"
        /\ ret'.args.origin_code = ret.args.price_data.route.origin.code
        /\ ret'.args.destination_code = ret.args.price_data.route.destination.code
        /\ ret'.args.travel_date = ret.args.price_data.route.departure_date
        /\ ret'.args.days_back = 30)
       => \E i \in 1..Len(ret'.value) :
              Reproduces(ret'.value[i], ret.args.price_data)]_vars

IsHistory == ret.op = "get_price_history" /\ ~ret.raised

\* C17 as stated: get_price_history returns its records by scraped_at
\* ascending, the latest last.
C17_Original ==
    IsHistory =>
        \A i, j \in 1..Len(ret.value) :
            i < j => ret.value[i].scraped_at.text <= ret.value[j].scraped_at.text

\* C17, amended: get_price_history returns the records of the route and date
\* by scraped_at descending: no record is followed by one scraped later, so the
\* first record is one of the latest scraped_at and the last one of the
\* earliest.
C17_NewestFirst ==
    IsHistory =>
        \A i, j \in 1..Len(ret.value) :
            i < j => ret.value[i].scraped_at.text >= ret.value[j].scraped_at.text

\* Three samples of one route written with the earliest between the two
\* later ones, and read back with a window that holds them all: the earliest
\* is the last record.
C17_Witness ==
    /\ IsHistory
    /\ Len(ret.value) = 3
    /\ Len(db.prices) = 3
    /\ db.prices[1].scraped_at.text > db.prices[2].scraped_at.text
    /\ db.prices[3].scraped_at.text > db.prices[2].scraped_at.text
    /\ ret.value[3].scraped_at = db.prices[2].scraped_at
    /\ ret.value[1].scraped_at.text > ret.value[3].scraped_at.text

---------------------------------------------------------------------------
(* C18: the trend *)

\* The first price of the trailing window of the requested series: the seventh
\* from the end, or the first of a series of fewer than 7.
WindowFirst ==
    RequestPrices[IF Len(RequestPrices) > 7 THEN Len(RequestPrices) - 6 ELSE 1]

WindowLast == RequestPrices[Len(RequestPrices)]

\* C18: on the data-driven path, with delta = (last - first) / first over the
\* last up-to-7 prices of the series (first > 0), the trend is rising iff
\* delta > 0.05, falling iff delta < -0.05, and stable otherwise, a delta of
\* exactly 0.05 or -0.05 included; no older price has a part in it.
C18_TrailingTrend ==
    (IsDataDriven /\ WindowFirst > 0) =>
        /\ Locals.analysis.trend = "rising"
               <=> 100 * (WindowLast - WindowFirst) > 5 * WindowFirst
        /\ Locals.analysis.trend = "falling"
               <=> 100 * (WindowLast - WindowFirst) < -5 * WindowFirst
        /\ Locals.analysis.trend = "stable"
               <=> /\ 100 * (WindowLast - WindowFirst) <= 5 * WindowFirst
                   /\ 100 * (WindowLast - WindowFirst) >= -5 * WindowFirst

\* A series of 8 whose window opens at 100 and closes at 105, exactly 5% up,
\* after an older sample at 95 from which the rise would be above 5%: the
\* trend is stable.
C18_Witness ==
    /\ IsDataDriven
    /\ Len(RequestPrices) = 8
    /\ RequestPrices[1] = 95
    /\ WindowFirst = 100
    /\ WindowLast = 105
    /\ Locals.analysis.trend = "stable"

---------------------------------------------------------------------------
(* C19: the price rules *)

\* The triggered factors among the three price factors, in order.
PriceFactors ==
    SelectSeq(Locals.factors,
              LAMBDA f : f.name \in {"excellent_price", "good_price", "high_price"})

\* The ratios of the request, from the candidate price and the series:
\* price / low <= 1.10, price / average <= 0.90, price / average >= 1.20, for a
\* series of positive prices.
RatioToLowExcellent == 10 * ret.args.current_price <= 11 * Min(RequestPrices)

RatioToAverageGood ==
    10 * ret.args.current_price * Len(RequestPrices) <= 9 * Sum(RequestPrices)

RatioToAverageHigh ==
    10 * ret.args.current_price * Len(RequestPrices) >= 12 * Sum(RequestPrices)

\* C19: on the data-driven path over positive prices at most one price factor
\* triggers: excellent_price (0.9) iff ratio_to_low <= 1.10, and then the
\* factor rules leave BUY_NOW; otherwise good_price (0.7) iff ratio_to_average
\* <= 0.90, which changes no recommendation; otherwise high_price (0.8) iff
\* ratio_to_average >= 1.20, which assigns WAIT only when more than 7 days
\* remain.  With a stable trend the recommendation after the price rule is the
\* one the factor rules leave.
C19_PriceElseChain ==
    (IsDataDriven /\ Min(RequestPrices) > 0) =>
        LET urgent == IF RequestDays <= 3 THEN BUY_NOW ELSE WAIT
            stable == Locals.analysis.trend = "stable"
        IN  /\ Len(PriceFactors) <= 1
            /\ Triggered("excellent_price") <=> RatioToLowExcellent
            /\ Triggered("good_price") <=>
                   (~RatioToLowExcellent /\ RatioToAverageGood)
            /\ Triggered("high_price") <=>
                   (~RatioToLowExcellent /\ ~RatioToAverageGood /\ RatioToAverageHigh)
            /\ \A i \in 1..Len(PriceFactors) :
                   PriceFactors[i].weight =
                       CASE PriceFactors[i].name = "excellent_price" -> Rat(9, 10)
                         [] PriceFactors[i].name = "good_price" -> Rat(7, 10)
                         [] PriceFactors[i].name = "high_price" -> Rat(8, 10)
            /\ Triggered("excellent_price") => Locals.factor_recommendation = BUY_NOW
            /\ (Triggered("good_price") /\ stable) =>
                   Locals.factor_recommendation = urgent
            /\ (Triggered("high_price") /\ stable) =>
                   Locals.factor_recommendation =
                       IF RequestDays > 7 THEN WAIT ELSE urgent

\* A price within 10% of the low and at most 90% of the average: both
\* conditions hold and excellent_price alone is triggered.
C19_Witness ==
    /\ IsDataDriven
    /\ Min(RequestPrices) > 0
    /\ RatioToLowExcellent
    /\ RatioToAverageGood
    /\ Triggered("excellent_price")
    /\ ~Triggered("good_price")
    /\ RequestDays > 7

---------------------------------------------------------------------------
(* C20: the volatility factor *)

\* price_volatility > 0.10 * historical_average, from the analysis.
HighVolatility ==
    DeviationGt(Locals.analysis.price_volatility,
                Rat(Locals.analysis.historical_average.num,
                    10 * Locals.analysis.historical_average.den))

\* C20: a data-driven request returns a result; its recommendation is the one
\* the first three factors and the override decide, whether or not
\* volatility > 0.10 * historical_average holds, and its confidence is the mean
\* of the weights of the first three factors' triggers with one more weight
\* of 0.3 exactly when that holds.
C20_VolatilityInformational ==
    IsDataDriven =>
        /\ ~ret.raised
        /\ ret.value.recommendation =
               IF OverrideCondition THEN PRICE_ALERT
               ELSE Locals.factor_recommendation
        /\ Triggered("volatile") <=> HighVolatility
        /\ RatEq(ret.value.confidence, MeanWeight(Locals.factors))

---------------------------------------------------------------------------
(* C21: the optimal purchase window *)

\* C21: a data-driven request returns a result whose optimal_purchase_window
\* is the 'now' text when at most 3 days remain, otherwise the '2-4 days' text
\* when the trend is falling, otherwise the '1-2 weeks' text, whatever the
\* volatility and whatever the recommendation.
C21_OptimalWindow ==
    IsDataDriven =>
        /\ ~ret.raised
        /\ ret.value.optimal_purchase_window =
               Some(IF RequestDays <= 3 THEN "Now - very close to departure"
                    ELSE IF Locals.analysis.trend = "falling"
                    THEN "2-4 days before departure"
                    ELSE "1-2 weeks before departure")

---------------------------------------------------------------------------
(* C22: division by zero *)

\* C22: in every series of 3 or more samples the lowest price, the average and
\* the first price of the trailing window of 7 are not zero, and no request
\* ends in a division by zero (decimal.DivisionByZero, or InvalidOperation
\* for 0/0).
C22_NoDivisionByZero ==
    /\ \A k \in DOMAIN price_histories :
           LET prices == PricesOf(price_histories[k].prices)
           IN  Len(prices) >= 3 =>
                   /\ Min(prices) # 0
                   /\ Sum(prices) # 0
                   /\ prices[IF Len(prices) > 7 THEN Len(prices) - 6 ELSE 1] # 0
    /\ IsRequest =>
           ~(ret.raised /\ ret.exc \in {"DivisionByZero", "InvalidOperation"})

---------------------------------------------------------------------------
(* C23: get-or-create *)

\* The identity of a routes row: the codes of its two stations, its train
\* number and its departure time.
RouteIdentity(tables, row) ==
    <<tables.stations[row.origin_id].code, tables.stations[row.destination_id].code,
      row.train_number, row.departure_time>>

\* The ids of the stations rows of a code, and of the routes rows of a route.
StationRows(tables, code) ==
    {i \in 1..Len(tables.stations) : tables.stations[i].code = code}

RouteRows(tables, route) ==
    {i \in 1..Len(tables.routes) :
        RouteIdentity(tables, tables.routes[i]) =
            <<route.origin.code, route.destination.code, route.train_number,
              adapt(<<route.departure_date, route.departure_hour>>)>>}

\* C23: after every call there is at most one stations row of a code and at
\* most one routes row of an identity, and the rows there were are still
\* there, under their ids; add_station (add_route) with a stored code
\* (identity) returns the id of its row and inserts nothing, with a new one it
\* inserts one row and returns its id; add_price_data inserts exactly one
\* prices row.
C23_GetOrCreate ==
    [][/\ \A i, j \in 1..Len(db'.stations) :
              db'.stations[i].code = db'.stations[j].code => i = j
       /\ \A i, j \in 1..Len(db'.routes) :
              RouteIdentity(db', db'.routes[i]) = RouteIdentity(db', db'.routes[j])
                  => i = j
       /\ IsPrefix(db.stations, db'.stations)
       /\ IsPrefix(db.routes, db'.routes)
       /\ IsPrefix(db.prices, db'.prices)
       /\ \A i \in 1..Len(db'.stations) : db'.stations[i].id = i
       /\ \A i \in 1..Len(db'.routes) : db'.routes[i].id = i
       /\ ret'.op = "PriceDatabase.add_station" =>
              LET rows == StationRows(db, ret'.args.station.code)
              IN  /\ rows # {} => db' = db /\ ret'.value.id \in rows
                  /\ rows = {} =>
                         /\ Len(db'.stations) = Len(db.stations) + 1
                         /\ ret'.value.id = Len(db'.stations)
                         /\ db'.stations[ret'.value.id].code = ret'.args.station.code
       /\ ret'.op = "PriceDatabase.add_route" =>
              LET rows == RouteRows(db, ret'.args.route)
              IN  /\ rows # {} => db' = db /\ ret'.value.id \in rows
                  /\ rows = {} =>
                         /\ Len(db'.routes) = Len(db.routes) + 1
                         /\ ret'.value.id = Len(db'.routes)
                         /\ ret'.value.id \in RouteRows(db', ret'.args.route)
       /\ ret'.op = "PriceDatabase.add_price_data" =>
              /\ Len(db'.prices) = Len(db.prices) + 1
              /\ ret'.value.id = Len(db'.prices)
              /\ db'.prices[ret'.value.id].route_id
                     \in RouteRows(db', ret'.args.price_data.route)]_vars

\* add_route for the first route stored, called again after another route of
\* the same stations was stored: the first id is returned, and the table still
\* has its two rows and two stations.
C23_Witness ==
    /\ ret.op = "PriceDatabase.add_route"
    /\ ret.value.id = 1
    /\ Len(db.routes) = 2
    /\ Len(db.stations) = 2
    /\ Len(db.prices) >= 1

---------------------------------------------------------------------------
(* C24: the decision in closed form *)

\* BUY_NOW if at most 3 days remain, or the price is within 10% of the low, or
\* the trend is rising; WAIT otherwise.
ClosedFormBeforeOverride ==
    IF \/ RequestDays <= 3
       \/ RatLe(Locals.analysis.current_vs_historical_low, Rat(11, 10))
       \/ Locals.analysis.trend = "rising"
    THEN BUY_NOW
    ELSE WAIT

\* C24: a data-driven request returns PRICE_ALERT if is_outlier holds,
\* ratio_to_low <= 1.05 and more than one day remains; otherwise BUY_NOW if at
\* most 3 days remain, or ratio_to_low <= 1.10, or the trend is rising;
\* otherwise WAIT.
C24_ClosedForm ==
    IsDataDriven =>
        /\ ~ret.raised
        /\ ret.value.recommendation =
               IF OverrideCondition THEN PRICE_ALERT ELSE ClosedFormBeforeOverride

---------------------------------------------------------------------------
(* C25: when PRICE_ALERT is returned *)

ReturnedAlert == IsRequest /\ ~ret.raised /\ ret.value.recommendation = PRICE_ALERT

\* C25: a request returns PRICE_ALERT only if its key has a series of at least
\* 3 samples, is_outlier holds, ratio_to_low <= 1.05 and more than one day
\* remains; it is not returned when at most one day remains, days already
\* passed included, nor for a key with fewer than 3 samples.
C25_AlertOnlyIf ==
    /\ ReturnedAlert =>
           /\ Len(RequestPrices) >= 3
           /\ IsDataDriven
           /\ OverrideCondition
    /\ (IsRequest /\ (RequestDays <= 1 \/ Len(RequestPrices) < 3)) => ~ReturnedAlert

\* A request made the day after departure, at an outlier price within 5% of
\* the low of a series of 3 or more: no PRICE_ALERT is returned.
C25_Witness ==
    /\ IsDataDriven
    /\ RequestDays = -1
    /\ Len(RequestPrices) >= 3
    /\ Locals.analysis.is_outlier
    /\ RatLe(Locals.analysis.current_vs_historical_low, Rat(105, 100))
    /\ ~ReturnedAlert

---------------------------------------------------------------------------
(* C26: the confidence *)

\* How many of the triggered factors have one of these names.
CountOf(names) ==
    Cardinality({i \in 1..Len(Locals.factors) : Locals.factors[i].name \in names})

\* C26: a data-driven request has exactly one days-band factor and at most one
\* price factor, one trend factor and one volatility factor, and returns a
\* confidence that is the mean of their weights, uncapped, within
\* [0.2, 0.85].
C26_ConfidenceRange ==
    IsDataDriven =>
        /\ CountOf({"urgent", "soon", "moderate", "early"}) = 1
        /\ CountOf({"excellent_price", "good_price", "high_price"}) <= 1
        /\ CountOf({"falling_trend", "rising_trend"}) <= 1
        /\ CountOf({"volatile"}) <= 1
        /\ ~ret.raised
        /\ RatEq(ret.value.confidence, MeanWeight(Locals.factors))
        /\ RatLe(Rat(2, 10), ret.value.confidence)
        /\ RatLe(ret.value.confidence, Rat(85, 100))

---------------------------------------------------------------------------
(* C27, C28: the table *)
\* C27: every series of the table has at least one sample, and no call of
\* get_price_statistics ends in the ValueError that min() of an empty list
\* raises.
C27_NoEmptySeries ==
    /\ \A k \in DOMAIN price_histories : Len(price_histories[k].prices) >= 1
    /\ ret.op = "get_price_statistics" => ~ret.raised

\* Statistics of a series of one sample, asked after requests and statistics
\* for a key that has no series, next to a second series.
C27_Witness ==
    /\ IsStatistics
    /\ ret.value[1].total_data_points = 1
    /\ Cardinality(DOMAIN price_histories) = 2
    /\ "MADRI_BCNSA_99_AVE" \notin DOMAIN price_histories

\* C28: no step removes a key; add_price_data(s) adds at most the key of s,
\* makes the series of that key one sample longer and leaves the series of
\* every other key as it was; get_optimization_recommendation
\* and get_price_statistics leave the table as it was, also for a key without
\* a series.
C28_Frame ==
    [][/\ DOMAIN price_histories \subseteq DOMAIN price_histories'
       /\ ret'.op = "add_price_data" =>
              LET own == KeyOf(ret'.args.price_data.route)
              IN  /\ DOMAIN price_histories' = DOMAIN price_histories \cup {own}
                  /\ \A k \in DOMAIN price_histories \ {own} :
                         price_histories'[k] = price_histories[k]
                  /\ Len(price_histories'[own].prices) =
                         Len(SeriesOf(price_histories, own)) + 1
       /\ ret'.op \in {"get_optimization_recommendation", "get_price_statistics"}
              => price_histories' = price_histories]_vars

\* A first sample ingested for a key while another key has a series of two.
C28_Witness ==
    /\ ret.op = "add_price_data"
    /\ Cardinality(DOMAIN price_histories) = 2
    /\ Len(price_histories[KeyOf(ret.args.price_data.route)].prices) = 1
    /\ \E k \in DOMAIN price_histories : Len(price_histories[k].prices) = 2

---------------------------------------------------------------------------
(* C29: the key is injective *)

\* C29: samples of one series have the same origin code, destination code,
\* travel date and train type, and a request reads the series of no other
\* origin, destination, date and train type than its own.
C29_InjectiveKey ==
    /\ \A p, q \in Places :
           p[1] = q[1] =>
               KeyInputs(SampleAt(p).route, SampleAt(p).route.departure_date)
                   = KeyInputs(SampleAt(q).route, SampleAt(q).route.departure_date)
    /\ IsRequest =>
           \A p \in Places :
               p[1] = RequestKey =>
                   KeyInputs(SampleAt(p).route, SampleAt(p).route.departure_date)
                       = KeyInputs(ret.args.route, RequestDate)

---------------------------------------------------------------------------
(* C30: get_optimization_recommendation is total *)

\* C30: a request at a positive price for a key whose series, if any, holds
\* positive prices only returns a result and raises nothing, with fewer than 3
\* samples and with 3 or more.
C30_Total ==
    (/\ IsRequest
     /\ ret.args.current_price > 0
     /\ \A i \in 1..Len(RequestPrices) : RequestPrices[i] > 0)
    => ~ret.raised

====
